---- MODULE Spec2Model ----
(***************************************************************************)
(* State-machine model of scripts/camera_monitor.py (CameraMonitor: the    *)
(* subscriber registry, the shared cv2.VideoCapture handle, the grab       *)
(* thread and the per-subscriber generator _posture_stream) and of         *)
(* scripts/cli.py (PostureStreamCLI.run and its signal handler).           *)
(*                                                                         *)
(* Python values are modelled as strings: None is "None", the falsy token  *)
(* 0 (or "") is "0", True/False are "True"/"False".  A capture handle or a *)
(* thread object is a slot number, 0 standing for None.                    *)
(***************************************************************************)
EXTENDS Naturals, FiniteSets, Sequences

\* ------------------------------------------------------------------ bounds
\* threads that call subscribe / unsubscribe concurrently
MaxCallers == 1
\* generator objects (streams) that exist at a time
MaxStreams == 2
\* grab threads that are alive at a time
MaxGrabbers == 2
\* VideoCapture objects that are referenced at a time
MaxCaps == 2
\* verdicts the CLI adapter consumes in one run
MaxTicks == 2

Callers == 1..MaxCallers
StreamIds == 1..MaxStreams
GrabberIds == 1..MaxGrabbers
CapIds == 1..MaxCaps

\* ------------------------------------------------------------------ values
None == "None"
Zero == "0"
MonitorId == "id(self)"
CliId == "id(cli)"
NoCap == 0
NoThread == 0
\* the identities passed to subscribe: omitted, a falsy token, a truthy token
SubscribeArgs == {None, Zero, "a"}
\* the identities passed to unsubscribe: the same, and the monitor's own id
UnsubscribeArgs == {None, Zero, "a", MonitorId}
\* Python truthiness of an identity token
Truthy(x) == x \notin {None, Zero}

VARIABLES
  _subscribers,      \* CameraMonitor._subscribers: set of identities
  _active,           \* CameraMonitor._active
  _cap,              \* CameraMonitor._cap: NoCap or a capture slot
  _grab_thread,      \* CameraMonitor._grab_thread: NoThread or a thread slot
  _grab_stop_event,  \* CameraMonitor._grab_stop_event: TRUE when set
  _lock,             \* CameraMonitor._lock: <<"free",0>>, <<"caller",t>>, <<"grabber",g>>
  caps,              \* the cv2.VideoCapture objects: slot -> state
  grabbers,          \* the grab threads: slot -> position in _grabber, handle in use
  streams,           \* the generators returned by subscribe: slot -> record
  callers,           \* the threads inside subscribe / unsubscribe
  cli,               \* PostureStreamCLI: position in run, running flag, exit status
  events             \* the lines the CLI has written to stdout, in order

monitorVars == <<_subscribers, _active, _cap, _grab_thread, _grab_stop_event, _lock,
                 caps, grabbers, streams, callers>>
cliVars == <<cli, events>>
vars == <<_subscribers, _active, _cap, _grab_thread, _grab_stop_event, _lock,
          caps, grabbers, streams, callers, cli, events>>

Free == <<"free", 0>>
CallerHolds(t) == <<"caller", t>>
GrabberHolds(g) == <<"grabber", g>>

\* a generator that has not been handed out
NoStream == [pc |-> "none", sid |-> None, anon |-> FALSE, cap |-> NoCap, frame |-> "-",
             out |-> "-", failed |-> FALSE, removal |-> "no"]
\* a generator that is exhausted
DoneStream == [NoStream EXCEPT !.pc = "done"]
IdleCaller == [pc |-> "idle", arg |-> None, sid |-> None, absent |-> FALSE]
\* a thread slot with no thread; cap is the handle a running grab() works on
NoGrabber == [pc |-> "none", cap |-> NoCap]

\* __init__ (camera_monitor.py 42-50) and PostureStreamCLI.__init__ (cli.py 77-81)
Init ==
  /\ _subscribers = {}
  /\ _active = FALSE
  /\ _cap = NoCap
  /\ _grab_thread = NoThread
  /\ _grab_stop_event = FALSE
  /\ _lock = Free
  /\ caps = [c \in CapIds |-> "none"]
  /\ grabbers = [g \in GrabberIds |-> NoGrabber]
  /\ streams = [s \in StreamIds |-> NoStream]
  /\ callers = [t \in Callers |-> IdleCaller]
  /\ cli = [pc |-> "start", running |-> TRUE, ret |-> "-", stream |-> 0,
            subscribed |-> "no", signalled |-> FALSE, sigAt |-> 0, ticks |-> 0]
  /\ events = <<>>

\* ------------------------------------------------------------ slot choice
Min(S) == CHOOSE x \in S : \A y \in S : x <= y
\* a generator slot is reusable once its generator is exhausted
FreeStreams == {s \in StreamIds : streams[s].pc \in {"none", "done"}}
\* a thread slot is reusable once its thread has exited
FreeGrabbers == {g \in GrabberIds : grabbers[g].pc = "none"}
\* a capture slot is reusable once released and no sampling loop still holds it
FreeCaps == {c \in CapIds : caps[c] = "none"}
InSubscribe == {t \in Callers : callers[t].pc \in {"sub_lock", "sub_open", "sub_thread"}}

\* ------------------------------------------------------- CameraMonitor.subscribe
\* the default dropped: sid = subscriber_id
SidWithoutDefault(subscriber_id) == subscriber_id

\* line 63: sid = subscriber_id or id(self)
Sid(subscriber_id) == IF Truthy(subscriber_id) THEN subscriber_id ELSE MonitorId

\* a thread calls subscribe(x) and reaches `with self._lock` (line 62)
CallSubscribe(t, x) ==
  /\ callers[t].pc = "idle"
  /\ Cardinality(FreeStreams) > Cardinality(InSubscribe)
  /\ Cardinality(FreeGrabbers) > Cardinality(InSubscribe)
  /\ Cardinality(FreeCaps) > Cardinality(InSubscribe)
  /\ callers' = [callers EXCEPT ![t] = [IdleCaller EXCEPT !.pc = "sub_lock", !.arg = x]]
  /\ UNCHANGED <<_subscribers, _active, _cap, _grab_thread, _grab_stop_event, _lock,
                 caps, grabbers, streams>>

\* the assignment of line 65 dropped: the identity is registered, active is left
SubscribeEnterActiveLeft(t) ==
  /\ callers[t].pc = "sub_lock"
  /\ _lock = Free
  /\ _lock' = CallerHolds(t)
  /\ _subscribers' = _subscribers \cup {Sid(callers[t].arg)}
  /\ callers' = [callers EXCEPT ![t].pc = "sub_open", ![t].sid = Sid(callers[t].arg),
                                ![t].absent = (Sid(callers[t].arg) \notin _subscribers)]
  /\ UNCHANGED <<_active, _cap, _grab_thread, _grab_stop_event, caps, grabbers, streams>>

\* lines 62-65: take the lock, register the identity, set active
SubscribeEnter(t) ==
  /\ callers[t].pc = "sub_lock"
  /\ _lock = Free
  /\ _lock' = CallerHolds(t)
  /\ _subscribers' = _subscribers \cup {Sid(callers[t].arg)}
  /\ _active' = TRUE
  /\ callers' = [callers EXCEPT ![t].pc = "sub_open", ![t].sid = Sid(callers[t].arg),
                                ![t].absent = (Sid(callers[t].arg) \notin _subscribers)]
  /\ UNCHANGED <<_cap, _grab_thread, _grab_stop_event, caps, grabbers, streams>>

\* lines 66-69: open the camera when the monitor holds no handle; the handle is
\* stored before it is tested, and a handle that did not open raises RuntimeError
\* out of the with block (which releases the lock)
SubscribeOpen(t) ==
  /\ callers[t].pc = "sub_open"
  /\ IF _cap = NoCap
       THEN \E opened \in BOOLEAN :
              LET c == Min(FreeCaps) IN
              /\ caps' = [caps EXCEPT ![c] = IF opened THEN "open" ELSE "unopened"]
              /\ _cap' = c
              /\ IF opened
                   THEN /\ callers' = [callers EXCEPT ![t].pc = "sub_thread"]
                        /\ UNCHANGED _lock
                   ELSE /\ callers' = [callers EXCEPT ![t] = IdleCaller]
                        /\ _lock' = Free
       ELSE /\ callers' = [callers EXCEPT ![t].pc = "sub_thread"]
            /\ UNCHANGED <<caps, _cap, _lock>>
  /\ UNCHANGED <<_subscribers, _active, _grab_thread, _grab_stop_event, grabbers, streams>>

\* line 74: the generator object returned for sid
\* (anon is bookkeeping: whether the call gave no identity)
NewStream(sid, anon) == [NoStream EXCEPT !.pc = "check", !.sid = sid, !.anon = anon]

\* lines 70-74: start a grab thread when none is alive, release the lock and
\* return the generator
SubscribeStart(t) ==
  /\ callers[t].pc = "sub_thread"
  /\ IF _grab_thread = NoThread \/ grabbers[_grab_thread].pc = "none"
       THEN LET g == Min(FreeGrabbers) IN
            /\ _grab_stop_event' = FALSE
            /\ grabbers' = [grabbers EXCEPT ![g].pc = "test"]
            /\ _grab_thread' = g
       ELSE UNCHANGED <<_grab_stop_event, grabbers, _grab_thread>>
  /\ _lock' = Free
  /\ streams' = [streams EXCEPT ![Min(FreeStreams)] = NewStream(callers[t].sid, callers[t].arg = None)]
  /\ callers' = [callers EXCEPT ![t] = IdleCaller]
  /\ UNCHANGED <<_subscribers, _active, _cap, caps>>

\* ----------------------------------------------------- CameraMonitor.unsubscribe
\* lines 84-87: discard the identity when it is truthy, clear the set otherwise
Remaining(subscriber_id) ==
  IF Truthy(subscriber_id) THEN _subscribers \ {subscriber_id} ELSE {}

\* a thread calls unsubscribe(x) and reaches `with self._lock` (line 83)
CallUnsubscribe(t, x) ==
  /\ callers[t].pc = "idle"
  /\ callers' = [callers EXCEPT ![t] = [IdleCaller EXCEPT !.pc = "unsub_lock", !.arg = x]]
  /\ UNCHANGED <<_subscribers, _active, _cap, _grab_thread, _grab_stop_event, _lock,
                 caps, grabbers, streams>>

\* bookkeeping, not program state: a live generator whose identity the call
\* removed notes by which branch it was removed ("id": discard, "all": clear)
NoteRemoval(st, removed, kind) ==
  IF st.pc \notin {"none", "done"} /\ st.sid \in removed
    THEN [st EXCEPT !.removal = kind]
    ELSE st

\* lines 83-91: take the lock, remove; when the set is now empty clear active
\* and set the stop event, otherwise leave the with block
UnsubscribeEnter(t) ==
  /\ callers[t].pc = "unsub_lock"
  /\ _lock = Free
  /\ LET x == callers[t].arg
         rest == Remaining(x) IN
     /\ _subscribers' = rest
     /\ streams' = [s \in StreamIds |->
                      NoteRemoval(streams[s], _subscribers \ rest,
                                  IF Truthy(x) THEN "id" ELSE "all")]
     /\ IF rest = {}
          THEN /\ _active' = FALSE
               /\ _grab_stop_event' = TRUE
               /\ _lock' = CallerHolds(t)
               /\ callers' = [callers EXCEPT ![t].pc = "unsub_join",
                                             ![t].absent = (x \notin _subscribers)]
          ELSE /\ callers' = [callers EXCEPT ![t] = IdleCaller]
               /\ UNCHANGED <<_active, _grab_stop_event, _lock>>
  /\ UNCHANGED <<_cap, _grab_thread, caps, grabbers>>

\* the timeout dropped: join() returns only when the thread has exited
UnsubscribeJoinWithoutTimeout(t) ==
  /\ callers[t].pc = "unsub_join"
  /\ _grab_thread # NoThread => grabbers[_grab_thread].pc = "none"
  /\ _grab_thread' = NoThread
  /\ callers' = [callers EXCEPT ![t].pc = "unsub_release"]
  /\ UNCHANGED <<_subscribers, _active, _cap, _grab_thread, _grab_stop_event, _lock, caps, grabbers,
                 streams>>

\* lines 92-94: join(timeout=1) while holding the lock.  The join returns when
\* the thread has exited, or times out when the thread is blocked on the lock
\* this caller holds; a thread that is between its stop test and its sleep
\* exits well within the timeout, so the join waits for it.
UnsubscribeJoin(t) ==
  /\ callers[t].pc = "unsub_join"
  /\ _grab_thread # NoThread => grabbers[_grab_thread].pc \in {"none", "lock"}
  /\ _grab_thread' = NoThread
  /\ callers' = [callers EXCEPT ![t].pc = "unsub_release"]
  /\ UNCHANGED <<_subscribers, _active, _cap, _grab_stop_event, _lock, caps, grabbers,
                 streams>>

\* the release() of line 96 dropped: the object stays as it was
ReleaseSkipped(c) == caps[c]

\* a VideoCapture object after release(): it lives on, released, while a sampling
\* loop still holds it, and is gone otherwise
Released(c) == IF \E s \in StreamIds : streams[s].cap = c THEN "released" ELSE "none"

\* lines 95-97: release the handle, forget it, leave the with block
UnsubscribeRelease(t) ==
  /\ callers[t].pc = "unsub_release"
  /\ IF _cap # NoCap
       THEN /\ caps' = [caps EXCEPT ![_cap] = Released(_cap)]
            /\ _cap' = NoCap
       ELSE UNCHANGED <<caps, _cap>>
  /\ _lock' = Free
  /\ callers' = [callers EXCEPT ![t] = IdleCaller]
  /\ UNCHANGED <<_subscribers, _active, _grab_thread, _grab_stop_event, grabbers, streams>>

\* -------------------------------------------------------- CameraMonitor._grabber
\* the stop test dropped: the loop goes on whatever the event says
GrabberTestIgnoresStop(g) ==
  /\ grabbers[g].pc = "test"
  /\ grabbers' = [grabbers EXCEPT ![g].pc = "lock"]
  /\ UNCHANGED <<_subscribers, _active, _cap, _grab_thread, _grab_stop_event, _lock,
                 caps, streams, callers>>

\* line 131: test the stop event (after the sleep of line 135); the thread
\* exits when it is set
GrabberTest(g) ==
  /\ grabbers[g].pc = "test"
  /\ grabbers' = [grabbers EXCEPT ![g].pc = IF _grab_stop_event THEN "none" ELSE "lock"]
  /\ UNCHANGED <<_subscribers, _active, _cap, _grab_thread, _grab_stop_event, _lock,
                 caps, streams, callers>>

\* line 133: the handle grab() is called on: the monitor's, when it is open
GrabTarget == IF _cap # NoCap /\ caps[_cap] = "open" THEN _cap ELSE NoCap

\* lines 132-134: with self._lock; grab() is called on the monitor's handle
\* when there is an open one
GrabberAcquire(g) ==
  /\ grabbers[g].pc = "lock"
  /\ _lock = Free
  /\ _lock' = GrabberHolds(g)
  /\ grabbers' = [grabbers EXCEPT ![g] = [pc |-> "grab", cap |-> GrabTarget]]
  /\ UNCHANGED <<_subscribers, _active, _cap, _grab_thread, _grab_stop_event,
                 caps, streams, callers>>

\* lines 134-135: grab() has returned (or was not called); leave the with
\* block, sleep
GrabberGrab(g) ==
  /\ grabbers[g].pc = "grab"
  /\ _lock' = Free
  /\ grabbers' = [grabbers EXCEPT ![g] = [pc |-> "test", cap |-> NoCap]]
  /\ UNCHANGED <<_subscribers, _active, _cap, _grab_thread, _grab_stop_event,
                 caps, streams, callers>>

\* -------------------------------------------------- CameraMonitor._posture_stream
\* a verdict leaves the generator (line 124 or 126); the tick's handle is dropped
Yield(st, value, failed) ==
  [st EXCEPT !.pc = "yielded", !.out = value, !.failed = failed, !.cap = NoCap]

\* the except clause dropped: the RuntimeError leaves the generator, which is
\* thereby finished
ReadFailedRaises(st) == DoneStream

\* lines 125-126: a RuntimeError raised by the tick is caught and None is yielded
ReadFailed(st) == Yield(st, "None", TRUE)

\* the VideoCapture objects once generator s has dropped the handle of its tick:
\* a released object no other sampling loop holds is gone
Dropped(s) ==
  LET c == streams[s].cap IN
  IF c # NoCap /\ caps[c] = "released" /\ \A o \in StreamIds \ {s} : streams[o].cap # c
    THEN [caps EXCEPT ![c] = "none"]
    ELSE caps

\* bookkeeping, not program state: a generator that passes its check after its
\* identity was removed is marked ("id!" or "all!")
Revived(removal) ==
  IF removal = "id" THEN "id!" ELSE IF removal = "all" THEN "all!" ELSE removal

\* lines 113-116: under the lock, end the generator when the identity is gone or
\* the monitor holds no handle; otherwise take the handle for this tick
StreamCheck(s) ==
  /\ streams[s].pc = "check"
  /\ _lock = Free
  /\ streams' = [streams EXCEPT ![s] =
       IF streams[s].sid \notin _subscribers \/ _cap = NoCap
         THEN DoneStream
         ELSE [@ EXCEPT !.pc = "read", !.cap = _cap,
                        !.removal = Revived(streams[s].removal)]]
  /\ UNCHANGED <<_subscribers, _active, _cap, _grab_thread, _grab_stop_event, _lock,
                 caps, grabbers, callers>>

\* lines 118-120: isOpened on the handle taken; a handle that is not open raises
\* RuntimeError, an open one is read
StreamReadBegin(s) ==
  /\ streams[s].pc = "read"
  /\ IF caps[streams[s].cap] # "open"
       THEN /\ streams' = [streams EXCEPT ![s] = ReadFailed(@)]
            /\ caps' = Dropped(s)
       ELSE /\ streams' = [streams EXCEPT ![s].pc = "reading"]
            /\ UNCHANGED caps
  /\ UNCHANGED <<_subscribers, _active, _cap, _grab_thread, _grab_stop_event, _lock,
                 grabbers, callers>>

\* the verdicts PostureDetector.is_leaning_forward returns (posture_detector.py 82-88)
Verdicts == {"True", "False", "None"}

\* what a frame shows, as far as the classifier tells frames apart: chin and
\* shoulder found with chin_y > shoulder_y, found with chin_y <= shoulder_y, or
\* one of them not found
Frames == {"chin_y > shoulder_y", "chin_y <= shoulder_y", "no landmarks"}

\* PostureDetector.is_leaning_forward (posture_detector.py 82-88)
is_leaning_forward(cv_frame) ==
  IF cv_frame = "no landmarks" THEN "None"
  ELSE IF cv_frame = "chin_y > shoulder_y" THEN "True" ELSE "False"

\* the verdict coerced to a bool before it is yielded
ClassifiedAsBool(st, frame) ==
  [Yield(st, IF is_leaning_forward(frame) = "True" THEN "True" ELSE "False", FALSE)
     EXCEPT !.frame = frame]

\* lines 123-124: the frame is classified and the verdict yielded
\* (frame is bookkeeping: the frame the verdict was computed from)
Classified(st, frame) == [Yield(st, is_leaning_forward(frame), FALSE) EXCEPT !.frame = frame]

\* lines 120-124: read returns (ret, frame); no frame raises RuntimeError, a
\* frame is classified and the verdict yielded.  Whether the read delivers a
\* frame is the device's choice, also when the handle was released while the
\* read ran.
StreamReadEnd(s) ==
  /\ streams[s].pc = "reading"
  /\ \E frame \in Frames \cup {None} :
       LET ret == frame # None IN
       streams' = [streams EXCEPT ![s] = IF ret THEN Classified(@, frame) ELSE ReadFailed(@)]
  /\ caps' = Dropped(s)
  /\ UNCHANGED <<_subscribers, _active, _cap, _grab_thread, _grab_stop_event, _lock,
                 grabbers, callers>>

\* the finally clause dropped: the generator leaves the yield and loops at once
StreamResumeWithoutSleep(s) ==
  /\ streams[s].pc = "yielded"
  /\ streams' = [streams EXCEPT ![s].pc = "check", ![s].out = "-", ![s].failed = FALSE,
                                ![s].frame = "-"]
  /\ UNCHANGED <<_subscribers, _active, _cap, _grab_thread, _grab_stop_event, _lock,
                 caps, grabbers, callers>>

\* the consumer asks for the next verdict: the generator leaves the yield and
\* enters the finally clause (lines 127-128: time.sleep(self.interval))
StreamResume(s) ==
  /\ streams[s].pc = "yielded"
  /\ streams' = [streams EXCEPT ![s].pc = "sleep", ![s].out = "-", ![s].failed = FALSE,
                                ![s].frame = "-"]
  /\ UNCHANGED <<_subscribers, _active, _cap, _grab_thread, _grab_stop_event, _lock,
                 caps, grabbers, callers>>

\* line 128, line 112: the sleep is over and the loop starts its next tick
StreamSleep(s) ==
  /\ streams[s].pc = "sleep"
  /\ streams' = [streams EXCEPT ![s].pc = "check"]
  /\ UNCHANGED <<_subscribers, _active, _cap, _grab_thread, _grab_stop_event, _lock,
                 caps, grabbers, callers>>

\* ------------------------------------------------------------ the monitor alone
Next ==
  \/ (\E t \in Callers : \E x \in SubscribeArgs : CallSubscribe(t, x)) /\ UNCHANGED cliVars
  \/ (\E t \in Callers : SubscribeEnter(t)) /\ UNCHANGED cliVars
  \/ (\E t \in Callers : SubscribeOpen(t)) /\ UNCHANGED cliVars
  \/ (\E t \in Callers : SubscribeStart(t)) /\ UNCHANGED cliVars
  \/ (\E t \in Callers : \E x \in UnsubscribeArgs : CallUnsubscribe(t, x)) /\ UNCHANGED cliVars
  \/ (\E t \in Callers : UnsubscribeEnter(t)) /\ UNCHANGED cliVars
  \/ (\E t \in Callers : UnsubscribeJoin(t)) /\ UNCHANGED cliVars
  \/ (\E t \in Callers : UnsubscribeRelease(t)) /\ UNCHANGED cliVars
  \/ (\E g \in GrabberIds : GrabberTest(g)) /\ UNCHANGED cliVars
  \/ (\E g \in GrabberIds : GrabberAcquire(g)) /\ UNCHANGED cliVars
  \/ (\E g \in GrabberIds : GrabberGrab(g)) /\ UNCHANGED cliVars
  \/ (\E s \in StreamIds : StreamCheck(s)) /\ UNCHANGED cliVars
  \/ (\E s \in StreamIds : StreamReadBegin(s)) /\ UNCHANGED cliVars
  \/ (\E s \in StreamIds : StreamReadEnd(s)) /\ UNCHANGED cliVars
  \/ (\E s \in StreamIds : StreamResume(s)) /\ UNCHANGED cliVars
  \/ (\E s \in StreamIds : StreamSleep(s)) /\ UNCHANGED cliVars

Spec == Init /\ [][Next]_vars

\* --------------------------------- the monitor and its grab threads, scheduled
\* subscribe, unsubscribe and _grabber with generators that are handed out and
\* not iterated
GrabNext ==
  \/ (\E t \in Callers : \E x \in SubscribeArgs : CallSubscribe(t, x)) /\ UNCHANGED cliVars
  \/ (\E t \in Callers : SubscribeEnter(t)) /\ UNCHANGED cliVars
  \/ (\E t \in Callers : SubscribeOpen(t)) /\ UNCHANGED cliVars
  \/ (\E t \in Callers : SubscribeStart(t)) /\ UNCHANGED cliVars
  \/ (\E t \in Callers : \E x \in UnsubscribeArgs : CallUnsubscribe(t, x)) /\ UNCHANGED cliVars
  \/ (\E t \in Callers : UnsubscribeEnter(t)) /\ UNCHANGED cliVars
  \/ (\E t \in Callers : UnsubscribeJoin(t)) /\ UNCHANGED cliVars
  \/ (\E t \in Callers : UnsubscribeRelease(t)) /\ UNCHANGED cliVars
  \/ (\E g \in GrabberIds : GrabberTest(g)) /\ UNCHANGED cliVars
  \/ (\E g \in GrabberIds : GrabberAcquire(g)) /\ UNCHANGED cliVars
  \/ (\E g \in GrabberIds : GrabberGrab(g)) /\ UNCHANGED cliVars

\* a started thread keeps running: a grab thread takes its next step (its sleep
\* of line 135 ends, grab() returns), gets the lock when it is free again and
\* again, and a caller that is inside a with block goes on to leave it
GrabFairness ==
  /\ \A g \in GrabberIds :
       /\ WF_vars(GrabberTest(g) /\ UNCHANGED cliVars)
       /\ SF_vars(GrabberAcquire(g) /\ UNCHANGED cliVars)
       /\ WF_vars(GrabberGrab(g) /\ UNCHANGED cliVars)
  /\ \A t \in Callers :
       /\ WF_vars(SubscribeOpen(t) /\ UNCHANGED cliVars)
       /\ WF_vars(SubscribeStart(t) /\ UNCHANGED cliVars)
       /\ WF_vars(UnsubscribeJoin(t) /\ UNCHANGED cliVars)
       /\ WF_vars(UnsubscribeRelease(t) /\ UNCHANGED cliVars)

GrabSpec == Init /\ [][GrabNext]_vars /\ GrabFairness

\* ------------------------- the monitor, its grab threads and loops, scheduled
\* the calls of one subscriber: subscribe('a'), unsubscribe('a'), unsubscribe()
FairSubscribeArgs == {"a"}
FairUnsubscribeArgs == {None, "a"}

FairNext ==
  \/ (\E t \in Callers : \E x \in FairSubscribeArgs : CallSubscribe(t, x)) /\ UNCHANGED cliVars
  \/ (\E t \in Callers : SubscribeEnter(t)) /\ UNCHANGED cliVars
  \/ (\E t \in Callers : SubscribeOpen(t)) /\ UNCHANGED cliVars
  \/ (\E t \in Callers : SubscribeStart(t)) /\ UNCHANGED cliVars
  \/ (\E t \in Callers : \E x \in FairUnsubscribeArgs : CallUnsubscribe(t, x)) /\ UNCHANGED cliVars
  \/ (\E t \in Callers : UnsubscribeEnter(t)) /\ UNCHANGED cliVars
  \/ (\E t \in Callers : UnsubscribeJoin(t)) /\ UNCHANGED cliVars
  \/ (\E t \in Callers : UnsubscribeRelease(t)) /\ UNCHANGED cliVars
  \/ (\E g \in GrabberIds : GrabberTest(g)) /\ UNCHANGED cliVars
  \/ (\E g \in GrabberIds : GrabberAcquire(g)) /\ UNCHANGED cliVars
  \/ (\E g \in GrabberIds : GrabberGrab(g)) /\ UNCHANGED cliVars
  \/ (\E s \in StreamIds : StreamCheck(s)) /\ UNCHANGED cliVars
  \/ (\E s \in StreamIds : StreamReadBegin(s)) /\ UNCHANGED cliVars
  \/ (\E s \in StreamIds : StreamReadEnd(s)) /\ UNCHANGED cliVars
  \/ (\E s \in StreamIds : StreamResume(s)) /\ UNCHANGED cliVars
  \/ (\E s \in StreamIds : StreamSleep(s)) /\ UNCHANGED cliVars

\* a thread waiting at `with self._lock` (lines 62, 83) gets the lock when it is
\* free again and again
CallFairness ==
  \A t \in Callers :
    /\ SF_vars(SubscribeEnter(t) /\ UNCHANGED cliVars)
    /\ SF_vars(UnsubscribeEnter(t) /\ UNCHANGED cliVars)

FairSpec == Init /\ [][FairNext]_vars /\ GrabFairness /\ CallFairness

\* ------------------------------------------------------------------ cli.py
\* the thread that runs PostureStreamCLI.run is caller 1 of the monitor
Main == 1

\* _output_status (lines 194-198)
Status(message) == [type |-> "status", message |-> message, is_leaning |-> "-"]
\* _output_error (lines 132-136)
Error(message) == [type |-> "error", message |-> message, is_leaning |-> "-"]
\* _output_posture (lines 146-156): "leaning" if is_leaning else "upright"
Posture(is_leaning) ==
  [type |-> "posture", message |-> IF is_leaning = "True" THEN "leaning" ELSE "upright",
   is_leaning |-> is_leaning]

\* the status of line 209 dropped: run goes straight to the subscription
CliStartSilent ==
  /\ cli.pc = "start"
  /\ cli' = [cli EXCEPT !.pc = "subscribe"]
  /\ UNCHANGED <<events, monitorVars>>

\* lines 208-209
CliStart ==
  /\ cli.pc = "start"
  /\ events' = Append(events, Status("Starting posture monitoring"))
  /\ cli' = [cli EXCEPT !.pc = "subscribe"]
  /\ UNCHANGED monitorVars

\* lines 211-212: self.monitor.subscribe(self.subscriber_id) is entered
CliSubscribe ==
  /\ cli.pc = "subscribe"
  /\ CallSubscribe(Main, CliId)
  /\ cli' = [cli EXCEPT !.pc = "subscribing"]
  /\ UNCHANGED events

CliSubscribeEnter ==
  /\ cli.pc = "subscribing"
  /\ SubscribeEnter(Main)
  /\ UNCHANGED cliVars

\* subscribe raising leaves _error_context (lines 119-123): the error is
\* written and the exception raised again
CliSubscribeOpen ==
  /\ cli.pc = "subscribing"
  /\ SubscribeOpen(Main)
  /\ IF callers'[Main].pc = "idle"
       THEN /\ events' = Append(events,
                 Error("Error during camera monitor subscription: Could not open camera."))
            /\ cli' = [cli EXCEPT !.pc = "except_runtime", !.subscribed = "failed"]
       ELSE UNCHANGED cliVars

\* lines 231-235: except RuntimeError
CliExceptRuntimeError ==
  /\ cli.pc = "except_runtime"
  /\ events' = Append(events, Error("Camera error: Could not open camera."))
  /\ cli' = [cli EXCEPT !.pc = "cleanup", !.ret = "1"]
  /\ UNCHANGED monitorVars

\* subscribe returns the generator
CliSubscribeStart ==
  /\ cli.pc = "subscribing"
  /\ SubscribeStart(Main)
  /\ cli' = [cli EXCEPT !.pc = "active", !.stream = Min(FreeStreams), !.subscribed = "ok"]
  /\ UNCHANGED events

\* lines 214-215
CliActive ==
  /\ cli.pc = "active"
  /\ events' = Append(events, Status("Camera monitor active"))
  /\ cli' = [cli EXCEPT !.pc = "next"]
  /\ UNCHANGED monitorVars

\* line 218: the for loop runs the generator up to its next yield or its end
CliStreamSleep ==
  /\ cli.pc = "next"
  /\ StreamSleep(cli.stream)
  /\ UNCHANGED cliVars

CliStreamCheck ==
  /\ cli.pc = "next"
  /\ StreamCheck(cli.stream)
  /\ UNCHANGED cliVars

CliStreamReadBegin ==
  /\ cli.pc = "next"
  /\ StreamReadBegin(cli.stream)
  /\ UNCHANGED cliVars

CliStreamReadEnd ==
  /\ cli.pc = "next"
  /\ StreamReadEnd(cli.stream)
  /\ UNCHANGED cliVars

\* lines 218-229: the generator hands control back.  When it is exhausted the
\* loop ends and run returns 0; when a verdict arrives the loop is left
\* (return 0) if running is false, and _error_context("posture output") is
\* entered otherwise.  (Writes to stdout are taken to succeed, so running is
\* only ever assigned by the signal handler's body.)
CliReceive ==
  /\ cli.pc = "next"
  /\ streams[cli.stream].pc \in {"yielded", "done"}
  /\ cli' = IF streams[cli.stream].pc = "done" \/ ~cli.running
              THEN [cli EXCEPT !.pc = "cleanup", !.ret = "0"]
              ELSE [cli EXCEPT !.pc = "output"]
  /\ UNCHANGED <<events, monitorVars>>

\* line 225: self._output_posture(is_leaning, timestamp)
CliOutput ==
  /\ cli.pc = "output"
  /\ events' = Append(events, Posture(streams[cli.stream].out))
  /\ cli' = [cli EXCEPT !.pc = "advance", !.ticks = @ + 1]
  /\ UNCHANGED monitorVars

\* line 218: the for loop asks for the next verdict
CliAdvance ==
  /\ cli.pc = "advance"
  /\ cli.ticks < MaxTicks
  /\ StreamResume(cli.stream)
  /\ cli' = [cli EXCEPT !.pc = "next"]
  /\ UNCHANGED events

\* lines 87-88, 101-104: SIGINT or SIGTERM is delivered while the loop of line
\* 218 runs.  Python calls the registered handler with (signum, frame);
\* _signal_handler is a bound method that accepts signum only, so the call
\* raises TypeError in the main thread before self.running is assigned.  The
\* exception leaves the generator (which is thereby finished) or the loop
\* body; inside _error_context("posture output") it is reported (lines
\* 119-123) and raised again.
Signal ==
  /\ cli.pc \in {"next", "output", "advance"}
  /\ ~cli.signalled
  /\ streams[cli.stream].pc # "done"
  /\ events' = IF cli.pc = "output"
                 THEN Append(events, Error("Error during posture output: TypeError"))
                 ELSE events
  /\ cli' = [cli EXCEPT !.pc = "except_exception", !.signalled = TRUE,
                        !.sigAt = Len(events)]
  /\ streams' = [streams EXCEPT ![cli.stream] = DoneStream]
  /\ caps' = Dropped(cli.stream)
  /\ UNCHANGED <<_subscribers, _active, _cap, _grab_thread, _grab_stop_event, _lock,
                 grabbers, callers>>

\* lines 237-241: except Exception
CliExceptException ==
  /\ cli.pc = "except_exception"
  /\ events' = Append(events, Error("Unexpected error: TypeError"))
  /\ cli' = [cli EXCEPT !.pc = "cleanup", !.ret = "1"]
  /\ UNCHANGED monitorVars

\* lines 243-249: finally: _cleanup calls self.monitor.unsubscribe(self.subscriber_id)
CliCleanup ==
  /\ cli.pc = "cleanup"
  /\ CallUnsubscribe(Main, CliId)
  /\ cli' = [cli EXCEPT !.pc = "unsubscribing"]
  /\ UNCHANGED events

CliUnsubscribeEnter ==
  /\ cli.pc = "unsubscribing"
  /\ UnsubscribeEnter(Main)
  /\ UNCHANGED cliVars

CliUnsubscribeJoin ==
  /\ cli.pc = "unsubscribing"
  /\ UnsubscribeJoin(Main)
  /\ UNCHANGED cliVars

CliUnsubscribeRelease ==
  /\ cli.pc = "unsubscribing"
  /\ UnsubscribeRelease(Main)
  /\ UNCHANGED cliVars

\* lines 250-251: unsubscribe has returned; the final status is written and run
\* returns
CliStopped ==
  /\ cli.pc = "unsubscribing"
  /\ callers[Main].pc = "idle"
  /\ events' = Append(events, Status("Posture monitoring stopped"))
  /\ cli' = [cli EXCEPT !.pc = "done"]
  /\ UNCHANGED monitorVars

\* ------------------------------------------- the CLI adapter over its monitor
CliNext ==
  \/ CliStart
  \/ CliSubscribe
  \/ CliSubscribeEnter
  \/ CliSubscribeOpen
  \/ CliExceptRuntimeError
  \/ CliSubscribeStart
  \/ CliActive
  \/ CliStreamSleep
  \/ CliStreamCheck
  \/ CliStreamReadBegin
  \/ CliStreamReadEnd
  \/ CliReceive
  \/ CliOutput
  \/ CliAdvance
  \/ Signal
  \/ CliExceptException
  \/ CliCleanup
  \/ CliUnsubscribeEnter
  \/ CliUnsubscribeJoin
  \/ CliUnsubscribeRelease
  \/ CliStopped
  \/ (\E g \in GrabberIds : GrabberTest(g)) /\ UNCHANGED cliVars
  \/ (\E g \in GrabberIds : GrabberAcquire(g)) /\ UNCHANGED cliVars
  \/ (\E g \in GrabberIds : GrabberGrab(g)) /\ UNCHANGED cliVars

CliSpec == Init /\ [][CliNext]_vars

\* ================================================================== claims
CallerHoldsLock == \E t \in Callers : _lock = CallerHolds(t)
Live(s) == streams[s].pc \notin {"none", "done"}
\* caller t takes the step of lines 62-65 / 83-91
EntersSubscribe(t) == callers[t].pc = "sub_lock" /\ callers'[t].pc # "sub_lock"
EntersUnsubscribe(t) == callers[t].pc = "unsub_lock" /\ callers'[t].pc # "unsub_lock"
ErrorEvents == {i \in 1..Len(events) : events[i].type = "error"}
PostureEvents == {i \in 1..Len(events) : events[i].type = "posture"}

\* C1: whenever no subscribe/unsubscribe call holds the lock, the capture
\* handle is open if and only if the subscriber set is non-empty.
C1_CaptureOpenIffSubscribed ==
  ~CallerHoldsLock => ((_cap # NoCap /\ caps[_cap] = "open") <=> _subscribers # {})

\* C2: unsubscribe(x) with a given identity x that is not registered (0 and ""
\* included) changes neither the subscriber set, nor the active flag, nor the
\* capture handle, nor the grab thread, in any of its steps.
C2_UnsubscribeAbsentIsNoOp ==
  [][\A t \in Callers :
       ( /\ callers[t].pc \in {"unsub_lock", "unsub_join", "unsub_release"}
         /\ callers'[t] # callers[t]
         /\ callers[t].arg # None
         /\ IF callers[t].pc = "unsub_lock"
              THEN callers[t].arg \notin _subscribers
              ELSE callers[t].absent )
       => UNCHANGED <<_subscribers, _active, _cap, _grab_thread>>]_vars

\* C3: unsubscribe called with an identity removes that identity and no other,
\* and when subscribers remain the capture handle, the grab thread and its stop
\* event are left alone.
C3_UnsubscribeRemovesOnlyThatIdentity ==
  [][\A t \in Callers :
       (EntersUnsubscribe(t) /\ callers[t].arg # None)
       => /\ _subscribers' = _subscribers \ {callers[t].arg}
          /\ _subscribers' # {} =>
               UNCHANGED <<_cap, caps, _grab_thread, _grab_stop_event, grabbers>>]_vars

\* C4 as stated: a subscribe call made without an identity registers an
\* identity of its own, one that no earlier call registered, so the subscriber
\* set gains an entry.
C4_AnonymousSidUniquePerCall ==
  [][\A t \in Callers :
       (EntersSubscribe(t) /\ callers[t].arg = None)
       => callers'[t].sid \notin _subscribers]_vars

\* C4 as amended: a subscribe call made without an identity registers the
\* monitor's own id, the same for every such call, so the generators of any
\* two identity-less calls stand for one entry of the subscriber set.
C4_AnonymousSidIsMonitorId ==
  /\ [][\A t \in Callers :
         (EntersSubscribe(t) /\ callers[t].arg = None)
         => /\ callers'[t].sid = MonitorId
            /\ _subscribers' = _subscribers \cup {MonitorId}]_vars
  /\ [](\A s \in StreamIds : (Live(s) /\ streams[s].anon) => streams[s].sid = MonitorId)

\* two generators of identity-less calls are live over the single entry
C4_Witness ==
  /\ \E s1 \in StreamIds : \E s2 \in StreamIds \ {s1} :
       \A s \in {s1, s2} : streams[s].anon /\ streams[s].pc = "yielded"
  /\ _subscribers = {MonitorId}

\* C5: a generator whose identity an unsubscribe removed never passes another
\* iteration boundary: it yields at most the verdict of the tick it was in and
\* then ends.
C5_RemovedStreamEnds ==
  \A s \in StreamIds : streams[s].removal \notin {"id!", "all!"}

\* C6: a generator handed out before an unsubscribe-all never passes another
\* iteration boundary, whatever subscribe follows the unsubscribe-all.
C6_NoStreamSurvivesUnsubscribeAll ==
  \A s \in StreamIds : streams[s].removal # "all!"

C8_IndeterminateIsNotAPosture ==
  \A i \in PostureEvents : events[i].is_leaning \in {"True", "False"}

\* C9: when subscribe fails because the camera cannot be opened, run has
\* written exactly one Error event and no Posture event when it returns, and
\* returns 1.
C9_OpenFailureOneErrorExitOne ==
  (cli.pc = "done" /\ cli.subscribed = "failed")
  => (Cardinality(ErrorEvents) = 1 /\ PostureEvents = {} /\ cli.ret = "1")

\* C10: when a shutdown signal was delivered while streaming, run returns 0
\* with the subscriber removed, its last event the Status 'Posture monitoring
\* stopped' and no Posture event written after the signal.
C10_SignalStopsCleanly ==
  (cli.pc = "done" /\ cli.signalled)
  => /\ cli.ret = "0"
     /\ CliId \notin _subscribers
     /\ events[Len(events)] = Status("Posture monitoring stopped")
     /\ \A i \in PostureEvents : i <= cli.sigAt

Existing == {c \in CapIds : caps[c] \in {"open", "unopened"}}

C13_ActiveIffSubscribed ==
  ~CallerHoldsLock => (_active <=> _subscribers # {})

\* an unsubscribe has emptied the set and returned
C13_Witness == ~CallerHoldsLock /\ ~_active /\ _grab_stop_event /\ _subscribers = {}

\* grab thread g is inside grab() on a handle
Grabbing(g) == grabbers[g].pc = "grab" /\ grabbers[g].cap # NoCap
\* caller t is inside join() on a grab thread that has not exited
Joining(t) ==
  callers[t].pc = "unsub_join" /\ _grab_thread # NoThread /\ grabbers[_grab_thread].pc # "none"

\* C14: the lock is held only across non-blocking steps: no thread holds it
\* while a grab on the capture handle is running in it, nor while it waits for
\* another thread to exit.
C14_LockNotHeldWhileBlocking ==
  /\ \A g \in GrabberIds : ~(Grabbing(g) /\ _lock = GrabberHolds(g))
  /\ \A t \in Callers : ~(Joining(t) /\ _lock = CallerHolds(t))

\* caller t returns from an unsubscribe that emptied the subscriber set
ReturnsFromEmptying(t) == callers[t].pc = "unsub_release" /\ callers'[t].pc = "idle"
AllGrabbersStopped == \A g \in GrabberIds : grabbers[g].pc = "none"

\* C15: an unsubscribe that empties the subscriber set goes on to release the
\* handle before it returns; grab() never runs on a handle that is not open;
\* and once the stop event is set every grab thread stops, unless a subscribe
\* clears the event again.
C15_ReleasedAndGrabbersStop ==
  /\ [][\A t \in Callers :
         (EntersUnsubscribe(t) /\ _subscribers' = {}) => callers'[t].pc = "unsub_join"]_vars
  /\ [][\A t \in Callers :
         ReturnsFromEmptying(t)
         => /\ _cap' = NoCap
            /\ _cap # NoCap => caps'[_cap] \in {"released", "none"}]_vars
  /\ [](\A g \in GrabberIds : Grabbing(g) => caps[grabbers[g].cap] = "open")
  /\ [][_grab_stop_event /\ ~_grab_stop_event'
         => \E t \in Callers : callers[t].pc = "sub_thread" /\ callers'[t].pc = "idle"]_vars
  /\ _grab_stop_event ~> (AllGrabbersStopped \/ ~_grab_stop_event)

\* after a session with a grab thread, the set is empty, the handle released
\* and every grab thread has stopped
C15_Witness ==
  /\ _grab_stop_event /\ _subscribers = {} /\ _cap = NoCap /\ ~CallerHoldsLock
  /\ AllGrabbersStopped
  /\ \E s \in StreamIds : streams[s].pc = "check"

C17_OneSleepBetweenReads ==
  [][\A s \in StreamIds :
       /\ (streams[s].pc # "check" /\ streams'[s].pc = "check")
            => streams[s].pc \in {"none", "done", "sleep"}
       /\ (streams[s].pc = "yielded" /\ streams'[s].pc # "yielded")
            => streams'[s].pc = "sleep"
       /\ (streams[s].pc = "sleep" /\ streams'[s].pc # "sleep")
            => streams'[s].pc = "check"
       /\ (streams[s].pc = "check" /\ streams'[s].pc # "check")
            => streams'[s].pc \in {"read", "done"}
       /\ (streams[s].pc \in {"read", "reading"} /\ streams'[s].pc # streams[s].pc)
            => streams'[s].pc \in {"reading", "yielded"}]_vars

\* a generator is in the sleep that follows its tick while another generator
\* is inside a read
C17_Witness ==
  \E s \in StreamIds : \E o \in StreamIds \ {s} :
    streams[s].pc = "sleep" /\ streams[o].pc = "reading"

\* the grab threads that have not exited
AliveGrabbers == {g \in GrabberIds : grabbers[g].pc # "none"}

\* C18: at most one grab thread of the monitor is alive at any time.
C18_OneGrabThread == Cardinality(AliveGrabbers) <= 1

\* caller t leaves subscribe by the RuntimeError of line 69
SubscribeRaises(t) == callers[t].pc = "sub_open" /\ callers'[t].pc = "idle"

\* C19: a subscribe that raises because the camera did not open leaves the
\* monitor as it was before the call: an identity that was not registered is
\* not registered, no handle is retained and no grab thread was started.
C19_FailedSubscribeLeavesNoTrace ==
  [][\A t \in Callers :
       SubscribeRaises(t)
       => /\ callers[t].absent => callers[t].sid \notin _subscribers'
          /\ _cap' = NoCap
          /\ UNCHANGED <<_grab_thread, grabbers>>]_vars

\* C20: while a generator's read runs on the handle it took, that handle has
\* not been released and no grab thread is inside grab() on it.
C20_HandleUsedByOneThreadAndNotAfterRelease ==
  \A s \in StreamIds :
    streams[s].pc = "reading"
    => /\ caps[streams[s].cap] # "released"
       /\ \A g \in GrabberIds : ~(Grabbing(g) /\ grabbers[g].cap = streams[s].cap)

\* C21: a caller holds the lock only inside a call, between taking it and
\* returning; and under fair scheduling every subscribe and unsubscribe call
\* that was entered returns with the lock released.
C21_CallsReturn ==
  /\ [](\A t \in Callers :
          callers[t].pc \in {"idle", "sub_lock", "unsub_lock"} => _lock # CallerHolds(t))
  /\ \A t \in Callers :
       (callers[t].pc # "idle") ~> (callers[t].pc = "idle" /\ _lock # CallerHolds(t))

\* unsubscribe waits, holding the lock, for a grab thread that is itself
\* waiting for that lock
C21_Witness ==
  \E t \in Callers :
    Joining(t) /\ _lock = CallerHolds(t) /\ grabbers[_grab_thread].pc = "lock"

====
